---- MODULE Spec2Model ----
(***************************************************************************)
(* Constant folding of LOGICAL-valued expressions                          *)
(* (flang/lib/Evaluate/fold-logical.cpp).                                  *)
(*                                                                         *)
(* The folder is a function from an expression node and a folding context  *)
(* to a replacement node; the only state it writes is the context's        *)
(* diagnostic sink.  The model keeps the context (messages, sink, the      *)
(* restorers alive on the call stack) as state, and has one action per     *)
(* rule of FoldIntrinsicFunction and per FoldOperation overload.  Each     *)
(* action takes a node from a bounded set of inputs and leaves the node    *)
(* and what the fold returned in the state.                                *)
(***************************************************************************)
EXTENDS Integers, Sequences, FiniteSets, TLC

VARIABLES
    pc,        \* "ready": the driver may hand over a node; "done": a fold
               \* has returned; "aborted": the process died in a fold
    node,      \* the node handed to the folder
    result,    \* what the fold returned
    messages,  \* the diagnostics in the context's message buffer
    sink,      \* where Say() writes: "buffer", or "null" while discarding
    stack      \* out_of_range calls suspended in Fold() of their source

vars == <<pc, node, result, messages, sink, stack>>

(***************************************************************************)
(* Bounds of the model.                                                    *)
(***************************************************************************)
MaxLen == 3        \* longest rank-1 constant array given to a reduction
MaxExtent == 2     \* largest extent of a rank-2 constant array
MaxVec == 2        \* longest vector given to DOT_PRODUCT
MaxDepth == 2      \* deepest nesting of out_of_range source folds
MaxMessages == 2   \* diagnostics kept in the buffer

(***************************************************************************)
(* Expression nodes.                                                       *)
(***************************************************************************)
NoNode == [tag |-> "None"]
Absent == [tag |-> "Absent"]
Abort == [tag |-> "Abort"]

Constant(cat, kind, values, shape) ==
    [tag |-> "Constant", cat |-> cat, kind |-> kind,
     values |-> values, shape |-> shape]

ScalarConstant(cat, kind, v) == Constant(cat, kind, <<v>>, <<>>)

\* A designator: typed, of known rank, never constant.
Var(cat, kind, rank) == [tag |-> "Var", cat |-> cat, kind |-> kind, rank |-> rank]

\* A BOZ literal: a typeless bit pattern, held in the largest integer.
BOZLiteralConstant(v) == [tag |-> "BOZ", value |-> v]

\* An array constructor with at least one element that is not constant.
ArrayConstructor(cat, kind, elems) ==
    [tag |-> "ArrayConstructor", cat |-> cat, kind |-> kind, elems |-> elems]

Call(name, args) == [tag |-> "Call", name |-> name, args |-> args]

Relational(cat, opr, x, y) ==
    [tag |-> "Relational", cat |-> cat, opr |-> opr, left |-> x, right |-> y]

LogicalOperation(opr, x, y) ==
    [tag |-> "LogicalOperation", logicalOperator |-> opr, left |-> x, right |-> y]

Not(x) == [tag |-> "Not", left |-> x]

\* MERGE(tsource, fsource, mask): the numeric expression with a logical
\* subexpression that the model uses as a source whose Fold() recurses.
Merge(t, f, mask) == [tag |-> "Merge", tsource |-> t, fsource |-> f, mask |-> mask]

\* LOGICAL results of intrinsic functions have the default kind.
LogicalResult(values, shape) == Constant("Logical", 4, values, shape)

ScalarLogical(b) == LogicalResult(<<b>>, <<>>)

(***************************************************************************)
(* Helpers on sequences and numbers.                                       *)
(***************************************************************************)
SeqsUpTo(S, n) == UNION {[1..k -> S] : k \in 0..n}

Abs(x) == IF x < 0 THEN -x ELSE x

Pow2(n) == 2 ^ n

RECURSIVE Product(_)
Product(s) == IF s = <<>> THEN 1 ELSE Head(s) * Product(Tail(s))

Bits(kind) == 8 * kind

Rank(e) ==
    IF e.tag = "Constant" THEN Len(e.shape)
    ELSE IF e.tag = "Var" THEN e.rank
    ELSE IF e.tag = "ArrayConstructor" THEN 1
    ELSE 0

(***************************************************************************)
(* The folding context's messages.                                         *)
(***************************************************************************)
Context(s, m) == [sink |-> s, messages |-> m]

\* ContextualMessages::Say: appended to the buffer unless discarding.
Say(ctx, msgs) ==
    IF ctx.sink = "null" THEN ctx
    ELSE [ctx EXCEPT !.messages = @ \o msgs]

\* ContextualMessages::DiscardMessages: the sink becomes null; the restorer
\* it returns holds the sink that was active.
DiscardMessages(ctx) == [ctx EXCEPT !.sink = "null"]

\* The restorer's destructor.
Restore(ctx, saved) == [ctx EXCEPT !.sink = saved]

Folded(ctx, expr) == [ctx |-> ctx, expr |-> expr]

(***************************************************************************)
(* Constancy tests.                                                        *)
(***************************************************************************)
IsActuallyConstant(e) == e.tag = "Constant"

\* The optional scalar value of a constant: a sequence of length 0 or 1.
GetScalarConstantValue(e) ==
    IF e.tag = "Constant" /\ e.shape = <<>> THEN <<e.values[1]>> ELSE <<>>

(***************************************************************************)
(* Elemental folding (FoldElementalIntrinsic): when every argument is a    *)
(* constant the scalar function is applied position by position, a scalar  *)
(* argument being broadcast; otherwise the call comes back.                *)
(***************************************************************************)
RECURSIVE Concat(_)
Concat(ss) == IF ss = <<>> THEN <<>> ELSE Head(ss) \o Concat(Tail(ss))

ElementAt(c, i) == IF c.shape = <<>> THEN c.values[1] ELSE c.values[i]

\* The scalars, or pairs of scalars, the scalar function of a call is
\* applied to.  A scalar function is given below as the function from
\* these to its value (F), and to the messages it says (D).
Operands1(call) ==
    LET a == call.args[1]
    IN  IF IsActuallyConstant(a) THEN {a.values[i] : i \in DOMAIN a.values} ELSE {}

Operands2(call) ==
    LET a == call.args[1]
        b == call.args[2]
    IN  IF IsActuallyConstant(a) /\ IsActuallyConstant(b)
        THEN {<<ElementAt(a, i), ElementAt(b, i)>> :
                 i \in 1..Product(IF a.shape # <<>> THEN a.shape ELSE b.shape)}
        ELSE {}

FoldElementalIntrinsic1(ctx, call, F, D) ==
    LET a == call.args[1]
    IN  IF IsActuallyConstant(a)
        THEN LET n == Product(a.shape)
             IN  Folded(Say(ctx, Concat([i \in 1..n |-> D[ElementAt(a, i)]])),
                        LogicalResult([i \in 1..n |-> F[ElementAt(a, i)]], a.shape))
        ELSE Folded(ctx, call)

FoldElementalIntrinsic2(ctx, call, F, D) ==
    LET a == call.args[1]
        b == call.args[2]
    IN  IF IsActuallyConstant(a) /\ IsActuallyConstant(b)
        THEN LET shape == IF a.shape # <<>> THEN a.shape ELSE b.shape
                 n == Product(shape)
             IN  Folded(Say(ctx, Concat([i \in 1..n |->
                                    D[<<ElementAt(a, i), ElementAt(b, i)>>]])),
                        LogicalResult([i \in 1..n |->
                                    F[<<ElementAt(a, i), ElementAt(b, i)>>]], shape))
        ELSE Folded(ctx, call)

\* A scalar function that says nothing.
NoDiagnostic(operands) == [x \in operands |-> <<>>]

(***************************************************************************)
(* ALL, ANY and PARITY.                                                    *)
(***************************************************************************)
ApplyLogical(operation, x, y) ==
    IF operation = "AND" THEN x /\ y
    ELSE IF operation = "OR" THEN x \/ y
    ELSE x # y   \* NEQV

RECURSIVE Accumulate(_, _, _)
Accumulate(operation, acc, vals) ==
    IF vals = <<>> THEN acc
    ELSE Accumulate(operation, ApplyLogical(operation, acc, Head(vals)), Tail(vals))

\* DIM= is absent, or a scalar constant in 1..rank; an optional dimension
\* is a sequence of length 0 or 1, and "bad" withholds the fold.
CheckReductionDIM(args, rank) ==
    IF Len(args) < 2 \/ args[2] = Absent THEN [ok |-> TRUE, dim |-> <<>>]
    ELSE LET d == GetScalarConstantValue(args[2])
         IN  IF d # <<>> /\ d[1] >= 1 /\ d[1] <= rank
             THEN [ok |-> TRUE, dim |-> d]
             ELSE [ok |-> FALSE, dim |-> <<>>]

\* The constant array and the dimension, or nothing.
ProcessReductionArgs(args) ==
    IF args = <<>> THEN <<>>
    ELSE IF ~IsActuallyConstant(args[1]) \/ Rank(args[1]) < 1 THEN <<>>
    ELSE LET chk == CheckReductionDIM(args, Rank(args[1]))
         IN  IF chk.ok THEN <<[array |-> args[1], dim |-> chk.dim]>> ELSE <<>>

\* The elements of a rank-1 or rank-2 array (column major) that are
\* combined into element k of the reduction along dimension d.
Slice(array, d, k) ==
    IF Len(array.shape) = 1 THEN array.values
    ELSE LET n1 == array.shape[1]
             n2 == array.shape[2]
         IN  IF d = 1 THEN [i \in 1..n1 |-> array.values[i + (k - 1) * n1]]
             ELSE [j \in 1..n2 |-> array.values[k + (j - 1) * n1]]

DoReduction(array, dim, identity, operation) ==
    IF dim = <<>>
    THEN ScalarConstant("Logical", array.kind,
                        Accumulate(operation, identity, array.values))
    ELSE LET d == dim[1]
             resultShape == SubSeq(array.shape, 1, d - 1)
                              \o SubSeq(array.shape, d + 1, Len(array.shape))
         IN  Constant("Logical", array.kind,
                      [k \in 1..Product(resultShape) |->
                          Accumulate(operation, identity, Slice(array, d, k))],
                      resultShape)

FoldAllAnyParity(ctx, ref, operation, identity) ==
    LET array == ProcessReductionArgs(ref.args)
    IN  IF array # <<>>
        THEN Folded(ctx, DoReduction(array[1].array, array[1].dim, identity, operation))
        ELSE Folded(ctx, ref)

\* The operation and the identity that FoldIntrinsicFunction passes.
ReductionOperation(name) ==
    IF name = "all" THEN "AND" ELSE IF name = "any" THEN "OR" ELSE "NEQV"

\* A faulty variant: the identity of OR and NEQV passed for ALL as well.
ReductionIdentityFalse(name) == FALSE

ReductionIdentity(name) == name = "all"

FoldReduction(ctx, call) ==
    FoldAllAnyParity(ctx, call, ReductionOperation(call.name),
                     ReductionIdentity(call.name))

(***************************************************************************)
(* BGE, BGT, BLE and BLT.  The largest integer holds a bit pattern as its  *)
(* two's-complement value; the comparisons read the pattern as unsigned.   *)
(***************************************************************************)
ConvertUnsigned(v, bits) == v % Pow2(bits)

\* A faulty variant: the operand sign extended.
SignExtend(c) == Constant("Integer", 16, c.values, c.shape)

ZeroExtend(c) ==
    Constant("Integer", 16,
             [i \in 1..Len(c.values) |-> ConvertUnsigned(c.values[i], Bits(c.kind))],
             c.shape)

UnsignedLess(i, j) == IF (i < 0) = (j < 0) THEN i < j ELSE j < 0

BGE(i, j) == ~UnsignedLess(i, j)

BGT(i, j) == UnsignedLess(j, i)

BLE(i, j) == ~UnsignedLess(j, i)

BLT(i, j) == UnsignedLess(i, j)

\* constArgs[i]: the zero-extended constant, or nothing.
ConstArg(arg) ==
    IF arg.tag = "BOZ" THEN <<ScalarConstant("Integer", 16, arg.value)>>
    ELSE IF arg.tag = "Constant" /\ arg.cat = "Integer" THEN <<ZeroExtend(arg)>>
    ELSE <<>>

BitCompare(name, i, j) ==
    IF name = "bge" THEN BGE(i, j)
    ELSE IF name = "bgt" THEN BGT(i, j)
    ELSE IF name = "ble" THEN BLE(i, j)
    ELSE BLT(i, j)

FoldBitCompare(ctx, call) ==
    LET c0 == ConstArg(call.args[1])
        c1 == ConstArg(call.args[2])
    IN  IF c0 # <<>> /\ c1 # <<>>
        THEN IF call.name \notin {"bge", "bgt", "ble", "blt"}
             THEN Folded(ctx, Abort)   \* common::die("missing case ...")
             ELSE LET extended == Call(call.name, <<c0[1], c1[1]>>)
                      operands == Operands2(extended)
                  IN  FoldElementalIntrinsic2(ctx, extended,
                          [p \in operands |-> BitCompare(call.name, p[1], p[2])],
                          NoDiagnostic(operands))
        ELSE Folded(ctx, call)

(***************************************************************************)
(* BTEST.                                                                  *)
(***************************************************************************)
BTEST(x, bits, pos) ==
    IF pos < 0 \/ pos >= bits THEN FALSE
    ELSE ((x % Pow2(bits)) \div Pow2(pos)) % 2 = 1

BtestMessage == "POS out of range for BTEST"

\* A faulty variant: a position equal to the width let through.
BtestCheckOffByOne(bits, posVal) ==
    IF posVal < 0 \/ posVal > bits THEN <<BtestMessage>> ELSE <<>>

BtestCheck(bits, posVal) ==
    IF posVal < 0 \/ posVal >= bits THEN <<BtestMessage>> ELSE <<>>

IsTyped(e) == e.tag \in {"Constant", "Var", "ArrayConstructor"}

FoldBtest(ctx, call) ==
    LET ix == call.args[1]
    IN  IF IsTyped(ix) /\ ix.cat = "Integer"
        THEN FoldElementalIntrinsic2(ctx, call,
                 [p \in Operands2(call) |-> BTEST(p[1], Bits(ix.kind), p[2])],
                 [p \in Operands2(call) |-> BtestCheck(Bits(ix.kind), p[2])])
        ELSE Folded(ctx, call)

(***************************************************************************)
(* Real scalars.  A value is finite (h counts halves, so that ties exist), *)
(* huge (finite, beyond the range of REAL(4), of sign h), infinite (of     *)
(* sign h) or a NaN.                                                       *)
(***************************************************************************)
Real(cls, h) == [cls |-> cls, h |-> h]

Finite(h) == Real("finite", h)

NaN == Real("nan", 0)

Inf(sign) == Real("inf", sign)

Huge(sign) == Real("huge", sign)

IsNotANumber(x) == x.cls = "nan"

IsFinite(x) == x.cls \in {"finite", "huge"}

IsNegative(x) == x.cls # "nan" /\ x.h < 0

IsNormal(x) == IsFinite(x)

\* The largest finite REAL(2) is 65504; with ties to even, 65520 and
\* beyond round to infinity.
FromIntegerOverflow(realKind, v) == realKind = 2 /\ Abs(v) >= 65520

ConvertRealOverflow(realKind, x) ==
    IF x.cls = "huge" THEN realKind \in {2, 4}
    ELSE IF x.cls = "finite" THEN realKind = 2 /\ Abs(x.h) >= 2 * 65520
    ELSE FALSE

ConvertSignedOverflow(intKind, v) ==
    v < -Pow2(Bits(intKind) - 1) \/ v > Pow2(Bits(intKind) - 1) - 1

\* The whole number a finite value of h halves rounds to.
ToWholeNumber(h, roundingMode) ==
    LET sign == IF h < 0 THEN -1 ELSE 1
    IN  IF roundingMode = "ToZero" THEN sign * (Abs(h) \div 2)
        ELSE sign * ((Abs(h) + 1) \div 2)   \* TiesAwayFromZero

\* Real::ToInteger: a NaN sets InvalidArgument only.
ToIntegerOverflow(intKind, x, roundingMode) ==
    IF x.cls = "nan" THEN FALSE
    ELSE IF x.cls \in {"inf", "huge"} THEN TRUE
    ELSE ConvertSignedOverflow(intKind, ToWholeNumber(x.h, roundingMode))

\* Conversion of a constant argument to the default real kind.
ToDefaultReal(x) == IF x.cls = "huge" THEN Inf(x.h) ELSE x

ConversionMessage == "REAL(8) to REAL(4) conversion overflowed"

ConversionCheck(x) == IF x.cls = "huge" THEN <<ConversionMessage>> ELSE <<>>

(***************************************************************************)
(* ISNAN, IEEE_IS_NAN, IEEE_IS_NEGATIVE and IEEE_IS_NORMAL.                *)
(***************************************************************************)
HasConstantArg(call) ==
    call.args[1] # Absent /\ IsActuallyConstant(call.args[1])

\* A faulty variant: the fold done without the restorer in scope.
FoldIsNanUnscoped(ctx, call) ==
    IF HasConstantArg(call)
    THEN FoldElementalIntrinsic1(ctx, call,
             [x \in Operands1(call) |-> IsNotANumber(ToDefaultReal(x))],
             [x \in Operands1(call) |-> ConversionCheck(x)])
    ELSE Folded(ctx, call)

FoldIsNan(ctx, call) ==
    IF HasConstantArg(call)
    THEN LET restorer == ctx.sink
             r == FoldElementalIntrinsic1(DiscardMessages(ctx), call,
                      [x \in Operands1(call) |-> IsNotANumber(ToDefaultReal(x))],
                      [x \in Operands1(call) |-> ConversionCheck(x)])
         IN  Folded(Restore(r.ctx, restorer), r.expr)
    ELSE Folded(ctx, call)

Classify(name, x) ==
    IF name = "__builtin_ieee_is_negative" THEN IsNegative(x) ELSE IsNormal(x)

FoldIeeeClass(ctx, call) ==
    LET restorer == ctx.sink
        open == DiscardMessages(ctx)
        r == IF HasConstantArg(call)
             THEN FoldElementalIntrinsic1(open, call,
                      [x \in Operands1(call) |-> Classify(call.name, ToDefaultReal(x))],
                      [x \in Operands1(call) |-> ConversionCheck(x)])
             ELSE Folded(open, call)
    IN  Folded(Restore(r.ctx, restorer), r.expr)

(***************************************************************************)
(* IS_IOSTAT_END and IS_IOSTAT_EOR.                                        *)
(***************************************************************************)
FORTRAN_RUNTIME_IOSTAT_END == -1

FORTRAN_RUNTIME_IOSTAT_EOR == -2

FoldIsIostat(ctx, call) ==
    IF HasConstantArg(call)
    THEN FoldElementalIntrinsic1(ctx, call,
             [x \in Operands1(call) |->
                 x = (IF call.name = "is_iostat_end"
                      THEN FORTRAN_RUNTIME_IOSTAT_END
                      ELSE FORTRAN_RUNTIME_IOSTAT_EOR)],
             NoDiagnostic(Operands1(call)))
    ELSE Folded(ctx, call)

(***************************************************************************)
(* ASSOCIATED.                                                             *)
(***************************************************************************)
NullPointer == [tag |-> "NullPointer"]

AssumedType(contiguous) == [tag |-> "AssumedType", contiguous |-> contiguous]

\* UnwrapExpr() of an actual argument: nothing for an assumed-type dummy.
HasExpr(arg) == arg.tag # "AssumedType"

IsNullPointer(e) == e.tag = "NullPointer"

\* What the call may return.  args[0] is dereferenced unchecked: when it is
\* absent the read is of an empty optional, and the outcome is any of a
\* crash or either branch taken on what happens to be read.
FoldAssociated(call) ==
    LET first == call.args[1]
        second == call.args[2]
        gotConstant ==
            IF ~HasExpr(first) \/ ~IsNullPointer(first) THEN FALSE
            ELSE IF second # Absent
                 THEN HasExpr(second) /\ IsNullPointer(second)
                 ELSE TRUE
    IN  IF first = Absent THEN {Abort, call, ScalarLogical(FALSE)}
        ELSE {IF gotConstant THEN ScalarLogical(FALSE) ELSE call}

(***************************************************************************)
(* EXTENDS_TYPE_OF and SAME_TYPE_AS.  An object has a declared type:       *)
(* "base", "child" (an extension of base), "other", or "unlimited" (CLASS).   *)
(***************************************************************************)
Object(dtype) == [tag |-> "Object", dtype |-> dtype]

\* GetType(): nothing for an assumed-type dummy.
GetType(arg) == IF arg.tag = "Object" THEN <<arg.dtype>> ELSE <<>>

\* The optional truth value: unknown for an unlimited polymorphic.
ExtendsTypeOf(t0, t1) ==
    IF t0 = "unlimited" \/ t1 = "unlimited" THEN <<>>
    ELSE <<t0 = t1 \/ (t0 = "child" /\ t1 = "base")>>

SameTypeAs(t0, t1) ==
    IF t0 = "unlimited" \/ t1 = "unlimited" THEN <<>>
    ELSE <<t0 = t1>>

FoldTypeTest(ctx, call) ==
    LET a0 == call.args[1]
        a1 == call.args[2]
    IN  IF a0 # Absent /\ a1 # Absent /\ GetType(a0) # <<>> /\ GetType(a1) # <<>>
        THEN LET t == IF call.name = "extends_type_of"
                      THEN ExtendsTypeOf(GetType(a0)[1], GetType(a1)[1])
                      ELSE SameTypeAs(GetType(a0)[1], GetType(a1)[1])
             IN  IF t # <<>> THEN Folded(ctx, ScalarLogical(t[1])) ELSE Folded(ctx, call)
        ELSE Folded(ctx, call)

(***************************************************************************)
(* IS_CONTIGUOUS.  A designator or an assumed-type dummy carries what the  *)
(* contiguity analysis says of it: "yes", "no" or "unknown".               *)
(***************************************************************************)
Designator(contiguous) == [tag |-> "Designator", contiguous |-> contiguous]

IsContiguous(e) == IF e.contiguous = "unknown" THEN <<>> ELSE <<e.contiguous = "yes">>

FoldIsContiguous(ctx, call) ==
    LET a == call.args[1]
    IN  IF a # Absent /\ IsContiguous(a) # <<>>
        THEN Folded(ctx, ScalarLogical(IsContiguous(a)[1]))
        ELSE Folded(ctx, call)

(***************************************************************************)
(* IEEE_SUPPORT_xxx and calls no rule folds.                               *)
(***************************************************************************)
FoldIeeeSupport(ctx, call) == Folded(ctx, ScalarLogical(TRUE))

FoldNothing(ctx, call) == Folded(ctx, call)

(***************************************************************************)
(* The elementwise applicator.  It applies when an operand has rank > 0    *)
(* and is not a constant: every array operand is taken apart, a scalar is  *)
(* broadcast, and the result is the array of the operation applied to the  *)
(* corresponding elements.  An optional result: length 0 or 1.             *)
(***************************************************************************)
Extent(e) == IF e.tag = "Constant" THEN Product(e.shape) ELSE Len(e.elems)

ElementExpr(e, i) ==
    IF Rank(e) = 0 THEN e
    ELSE IF e.tag = "Constant" THEN ScalarConstant(e.cat, e.kind, e.values[i])
    ELSE e.elems[i]

NeedsElementwise(operands) ==
    \E i \in 1..Len(operands) :
        Rank(operands[i]) > 0 /\ ~IsActuallyConstant(operands[i])

\* The element expressions, or pairs of them, the operation is rebuilt on;
\* F is the function from these to the rebuilt operation.
Elements(x) ==
    IF NeedsElementwise(<<x>>) THEN {ElementExpr(x, i) : i \in 1..Extent(x)} ELSE {}

ElementPairs(x, y) ==
    IF NeedsElementwise(<<x, y>>)
    THEN {<<ElementExpr(x, i), ElementExpr(y, i)>> :
             i \in 1..(IF Rank(x) > 0 THEN Extent(x) ELSE Extent(y))}
    ELSE {}

ApplyElementwise1(x, kind, F) ==
    IF NeedsElementwise(<<x>>)
    THEN <<ArrayConstructor("Logical", kind,
                            [i \in 1..Extent(x) |-> F[ElementExpr(x, i)]])>>
    ELSE <<>>

ApplyElementwise2(x, y, kind, F) ==
    IF NeedsElementwise(<<x, y>>)
    THEN LET n == IF Rank(x) > 0 THEN Extent(x) ELSE Extent(y)
         IN  <<ArrayConstructor("Logical", kind,
                   [i \in 1..n |-> F[<<ElementExpr(x, i), ElementExpr(y, i)>>]])>>
    ELSE <<>>

\* The scalar values of both operands, or nothing.
OperandsAreConstants(operation) ==
    LET x == GetScalarConstantValue(operation.left)
        y == GetScalarConstantValue(operation.right)
    IN  IF x # <<>> /\ y # <<>> THEN <<[first |-> x[1], second |-> y[1]]>> ELSE <<>>

(***************************************************************************)
(* Relational operators.                                                   *)
(***************************************************************************)
Ordering(x, y) == IF x < y THEN "Less" ELSE IF x = y THEN "Equal" ELSE "Greater"

CompareSigned(x, y) == Ordering(x, y)

CompareUnsigned(x, y) ==
    IF UnsignedLess(x, y) THEN "Less" ELSE IF x = y THEN "Equal" ELSE "Greater"

\* The place of a real that is not a NaN on the number line.
Magnitude(x) ==
    IF x.cls = "finite" THEN x.h
    ELSE IF x.cls = "huge" THEN x.h * 1000000
    ELSE x.h * 2000000

CompareReal(x, y) ==
    IF IsNotANumber(x) \/ IsNotANumber(y) THEN "Unordered"
    ELSE Ordering(Magnitude(x), Magnitude(y))

\* Complex values are pairs <<re, im>>.
ComplexEquals(x, y) ==
    CompareReal(x[1], y[1]) = "Equal" /\ CompareReal(x[2], y[2]) = "Equal"

\* Character values are sequences of codes; the shorter is blank padded.
Blank == 32

CodeAt(s, i) == IF i <= Len(s) THEN s[i] ELSE Blank

RECURSIVE CompareFrom(_, _, _)
CompareFrom(x, y, i) ==
    IF i > Len(x) /\ i > Len(y) THEN "Equal"
    ELSE IF CodeAt(x, i) # CodeAt(y, i) THEN Ordering(CodeAt(x, i), CodeAt(y, i))
    ELSE CompareFrom(x, y, i + 1)

CompareCharacter(x, y) == CompareFrom(x, y, 1)

Satisfies(opr, relation) ==
    IF relation = "Less" THEN opr \in {"LT", "LE", "NE"}
    ELSE IF relation = "Equal" THEN opr \in {"LE", "EQ", "GE"}
    ELSE IF relation = "Greater" THEN opr \in {"NE", "GE", "GT"}
    ELSE opr = "NE"   \* Unordered

\* A faulty variant: integers compared as unsigned.
RelationalResultUnsigned(relation, x, y) ==
    IF relation.cat = "Integer" THEN Satisfies(relation.opr, CompareUnsigned(x, y))
    ELSE IF relation.cat = "Real" THEN Satisfies(relation.opr, CompareReal(x, y))
    ELSE IF relation.cat = "Complex" THEN (relation.opr = "EQ") = ComplexEquals(x, y)
    ELSE Satisfies(relation.opr, CompareCharacter(x, y))

RelationalResult(relation, x, y) ==
    IF relation.cat = "Integer" THEN Satisfies(relation.opr, CompareSigned(x, y))
    ELSE IF relation.cat = "Real" THEN Satisfies(relation.opr, CompareReal(x, y))
    ELSE IF relation.cat = "Complex" THEN (relation.opr = "EQ") = ComplexEquals(x, y)
    ELSE Satisfies(relation.opr, CompareCharacter(x, y))

FoldRelational(ctx, relation) ==
    LET array == ApplyElementwise2(relation.left, relation.right, 4,
                     [p \in ElementPairs(relation.left, relation.right) |->
                         Relational(relation.cat, relation.opr, p[1], p[2])])
        folded == OperandsAreConstants(relation)
    IN  IF array # <<>> THEN Folded(ctx, array[1])
        ELSE IF folded # <<>>
        THEN Folded(ctx, ScalarLogical(
                 RelationalResult(relation, folded[1].first, folded[1].second)))
        ELSE Folded(ctx, relation)

(***************************************************************************)
(* .NOT. and the binary logical operators.                                 *)
(***************************************************************************)
FoldNot(ctx, x) ==
    LET array == ApplyElementwise1(x.left, x.left.kind,
                                   [e \in Elements(x.left) |-> Not(e)])
        value == GetScalarConstantValue(x.left)
    IN  IF array # <<>> THEN Folded(ctx, array[1])
        ELSE IF value # <<>>
        THEN Folded(ctx, ScalarConstant("Logical", x.left.kind, ~value[1]))
        ELSE Folded(ctx, x)

\* A faulty variant: Eqv and Neqv exchanged.
LogicalResultExchanged(logicalOperator, xt, yt) ==
    IF logicalOperator = "And" THEN <<xt /\ yt>>
    ELSE IF logicalOperator = "Or" THEN <<xt \/ yt>>
    ELSE IF logicalOperator = "Eqv" THEN <<xt # yt>>
    ELSE IF logicalOperator = "Neqv" THEN <<xt = yt>>
    ELSE <<>>

\* The truth table; the optional result is nothing for the unary operator,
\* where the code dies.
LogicalResultOf(logicalOperator, xt, yt) ==
    IF logicalOperator = "And" THEN <<xt /\ yt>>
    ELSE IF logicalOperator = "Or" THEN <<xt \/ yt>>
    ELSE IF logicalOperator = "Eqv" THEN <<xt = yt>>
    ELSE IF logicalOperator = "Neqv" THEN <<xt # yt>>
    ELSE <<>>   \* DIE("not a binary operator")

FoldLogicalOperation(ctx, operation) ==
    LET kind == operation.left.kind
        array == ApplyElementwise2(operation.left, operation.right, kind,
                     [p \in ElementPairs(operation.left, operation.right) |->
                         LogicalOperation(operation.logicalOperator, p[1], p[2])])
        folded == OperandsAreConstants(operation)
    IN  IF array # <<>> THEN Folded(ctx, array[1])
        ELSE IF folded # <<>>
        THEN LET r == LogicalResultOf(operation.logicalOperator,
                                      folded[1].first, folded[1].second)
             IN  IF r = <<>> THEN Folded(ctx, Abort)
                 ELSE Folded(ctx, ScalarConstant("Logical", kind, r[1]))
        ELSE Folded(ctx, operation)

(***************************************************************************)
(* LGE, LGT, LLE and LLT; LOGICAL; DOT_PRODUCT.                            *)
(***************************************************************************)
IsCharacter(arg) == IsTyped(arg) /\ arg.cat = "Character"

CharacterRelation(name) ==
    IF name = "lge" THEN "GE"
    ELSE IF name = "lgt" THEN "GT"
    ELSE IF name = "lle" THEN "LE"
    ELSE "LT"

FoldCharCompare(ctx, call) ==
    LET cx0 == call.args[1]
        cx1 == call.args[2]
    IN  IF IsCharacter(cx0) /\ IsCharacter(cx1)
        THEN FoldRelational(ctx,
                 Relational("Character", CharacterRelation(call.name), cx0, cx1))
        ELSE Folded(ctx, call)

Convert(kind, x) == [tag |-> "Convert", kind |-> kind, operand |-> x]

\* Fold(ConvertToType<T>(expr)) for a logical expression.
ConvertLogical(kind, e) ==
    IF e.kind = kind THEN e
    ELSE IF IsActuallyConstant(e) THEN Constant("Logical", kind, e.values, e.shape)
    ELSE Convert(kind, e)

FoldLogicalKind(ctx, call) ==
    LET expr == call.args[1]
    IN  IF IsTyped(expr) /\ expr.cat = "Logical"
        THEN Folded(ctx, ConvertLogical(4, expr))
        ELSE Folded(ctx, call)

ExtentsMessage == "Vector arguments to DOT_PRODUCT have distinct extents"

InvalidIntrinsic(call) == Call("(invalid intrinsic function call)", call.args)

FoldDotProduct(ctx, call) ==
    LET va == call.args[1]
        vb == call.args[2]
    IN  IF IsActuallyConstant(va) /\ IsActuallyConstant(vb)
        THEN IF Len(va.values) # Len(vb.values)
             THEN Folded(Say(ctx, <<ExtentsMessage>>), InvalidIntrinsic(call))
             ELSE Folded(ctx, ScalarLogical(
                      \E i \in 1..Len(va.values) : va.values[i] /\ vb.values[i]))
        ELSE Folded(ctx, call)

(***************************************************************************)
(* OUT_OF_RANGE, once Fold() of the source has returned.                   *)
(***************************************************************************)
IsReal(arg) == IsTyped(arg) /\ arg.cat = "Real"

IsInteger(arg) == IsTyped(arg) /\ arg.cat = "Integer"

IsLogical(arg) == IsTyped(arg) /\ arg.cat = "Logical"

\* The elements of a constant; a loop over them is given as the function
\* F from an element to what the loop appends for it.
Elts(c) == {c.values[i] : i \in DOMAIN c.values}

MapValues(c, F) == [i \in 1..Len(c.values) |-> F[c.values[i]]]

Values(v) == [status |-> "values", values |-> v]

NoValues == [status |-> "none", values |-> <<>>]

Died == [status |-> "abort", values |-> <<>>]

IntegerToReal(mold, x) ==
    Values(MapValues(x, [elt \in Elts(x) |-> FromIntegerOverflow(mold.kind, elt)]))

RealToReal(mold, x) ==
    Values(MapValues(x, [elt \in Elts(x) |->
               IsFinite(elt) /\ ConvertRealOverflow(mold.kind, elt)]))

IntegerToInteger(mold, x) ==
    Values(MapValues(x, [elt \in Elts(x) |-> ConvertSignedOverflow(mold.kind, elt)]))

\* cRound: the ROUND= argument when it is there and LOGICAL, or nothing.
RoundArgument(args) ==
    IF Len(args) >= 3 /\ IsLogical(args[3]) THEN <<args[3]>> ELSE <<>>

\* A faulty variant: ROUND= read but not applied.
RoundingModeIgnored(cRound) ==
    IF cRound = <<>> THEN <<"ToZero">>
    ELSE IF GetScalarConstantValue(cRound[1]) = <<>> THEN <<>>
    ELSE <<"ToZero">>

\* The rounding mode ROUND= selects, or nothing when .value() is called on
\* an optional that holds no scalar.
RoundingModeOf(cRound) ==
    IF cRound = <<>> THEN <<"ToZero">>
    ELSE LET v == GetScalarConstantValue(cRound[1])
         IN  IF v = <<>> THEN <<>>
             ELSE IF v[1] THEN <<"TiesAwayFromZero">>
             ELSE <<"ToZero">>

\* A faulty variant: Inf and NaN left to the conversion's overflow flag.
RealToIntegerFlagOnly(mold, x, roundingMode) ==
    Values(MapValues(x, [elt \in Elts(x) |->
               ToIntegerOverflow(mold.kind, elt, roundingMode)]))

RealToInteger(mold, x, roundingMode) ==
    Values(MapValues(x, [elt \in Elts(x) |->
               ~IsFinite(elt) \/ ToIntegerOverflow(mold.kind, elt, roundingMode)]))

\* The optional vector of results for a source that folded to a constant.
OutOfRangeValues(args, folded) ==
    LET mold == args[2]
        cRound == RoundArgument(args)
    IN  IF IsReal(mold)
        THEN IF IsInteger(folded) THEN IntegerToReal(mold, folded)
             ELSE IF IsReal(folded) THEN RealToReal(mold, folded)
             ELSE NoValues
        ELSE IF IsInteger(mold)
        THEN IF IsInteger(folded) THEN IntegerToInteger(mold, folded)
             ELSE IF cRound = <<>> \/ IsActuallyConstant(args[3])
             THEN IF IsReal(folded)
                  THEN IF RoundingModeOf(cRound) = <<>> THEN Died
                       ELSE RealToInteger(mold, folded, RoundingModeOf(cRound)[1])
                  ELSE NoValues
             ELSE NoValues
        ELSE NoValues

\* The constant extents of a constant.
GetConstantExtents(folded) == <<folded.shape>>

\* A faulty variant: the constant built from the values alone, as a vector.
OutOfRangeFlattened(call, folded) ==
    LET args == [call.args EXCEPT ![1] = folded]
        unfolded == Call(call.name, args)
        r == IF IsActuallyConstant(folded) THEN OutOfRangeValues(args, folded)
             ELSE NoValues
    IN  IF r.status = "abort" THEN Abort
        ELSE IF r.status = "values" /\ GetConstantExtents(folded) # <<>>
        THEN LogicalResult(r.values, <<Len(r.values)>>)
        ELSE unfolded

\* The rule from "*args[0] = Fold(...)" on: the call with the folded source
\* in place, or the constant.
OutOfRangeFolded(call, folded) ==
    LET args == [call.args EXCEPT ![1] = folded]
        unfolded == Call(call.name, args)
        r == IF IsActuallyConstant(folded) THEN OutOfRangeValues(args, folded)
             ELSE NoValues
    IN  IF r.status = "abort" THEN Abort
        ELSE IF r.status = "values" /\ GetConstantExtents(folded) # <<>>
        THEN LogicalResult(r.values, GetConstantExtents(folded)[1])
        ELSE unfolded

\* Whether args[0] holds an expression.
HasSource(call) == call.args[1] # Absent

\* A source that is a constant or a designator folds to itself at once.
IsLeaf(e) == e.tag \in {"Constant", "Var"}

FoldOutOfRangeLeaf(ctx, call) ==
    IF HasSource(call)
    THEN LET restorer == ctx.sink
             open == DiscardMessages(ctx)
         IN  Folded(Restore(open, restorer), OutOfRangeFolded(call, call.args[1]))
    ELSE Folded(ctx, call)

\* Fold() of MERGE once its mask has been folded.
FoldMerge(e, mask) ==
    IF IsActuallyConstant(mask)
    THEN Constant(e.tsource.cat, e.tsource.kind,
                  [i \in 1..Len(mask.values) |->
                      IF mask.values[i] THEN e.tsource.values[1]
                      ELSE e.fsource.values[1]],
                  mask.shape)
    ELSE Merge(e.tsource, e.fsource, mask)

(***************************************************************************)
(* The rule FoldIntrinsicFunction selects for a name.                      *)
(***************************************************************************)
IeeeSupportNames ==
    {"__builtin_ieee_support_datatype", "__builtin_ieee_support_denormal",
     "__builtin_ieee_support_divide", "__builtin_ieee_support_inf",
     "__builtin_ieee_support_io", "__builtin_ieee_support_nan",
     "__builtin_ieee_support_sqrt", "__builtin_ieee_support_standard",
     "__builtin_ieee_support_subnormal",
     "__builtin_ieee_support_underflow_control"}

RuleChain(name, supportNames) ==
    IF name = "all" THEN "reduction"
    ELSE IF name = "any" THEN "reduction"
    ELSE IF name = "associated" THEN "associated"
    ELSE IF name \in {"bge", "bgt", "ble", "blt"} THEN "bitcompare"
    ELSE IF name = "btest" THEN "btest"
    ELSE IF name = "dot_product" THEN "dot_product"
    ELSE IF name = "extends_type_of" THEN "typetest"
    ELSE IF name \in {"isnan", "__builtin_ieee_is_nan"} THEN "isnan"
    ELSE IF name = "__builtin_ieee_is_negative" THEN "ieeeclass"
    ELSE IF name = "__builtin_ieee_is_normal" THEN "ieeeclass"
    ELSE IF name = "is_contiguous" THEN "is_contiguous"
    ELSE IF name = "is_iostat_end" THEN "is_iostat"
    ELSE IF name = "is_iostat_eor" THEN "is_iostat"
    ELSE IF name \in {"lge", "lgt", "lle", "llt"} THEN "charcompare"
    ELSE IF name = "logical" THEN "logical"
    ELSE IF name = "out_of_range" THEN "out_of_range"
    ELSE IF name = "parity" THEN "reduction"
    ELSE IF name = "same_type_as" THEN "typetest"
    ELSE IF name \in supportNames THEN "ieee_support"
    ELSE "none"

\* A faulty dispatch: every __builtin_ieee_ name not matched earlier taken for a
\* support query.
RuleOfPrefix(name) ==
    RuleChain(name, IeeeSupportNames \cup {"__builtin_ieee_is_finite"})

RuleOf(name) == RuleChain(name, IeeeSupportNames)

(***************************************************************************)
(* The nodes the driver hands over.                                        *)
(***************************************************************************)
LogicalVector(v) == LogicalResult(v, <<Len(v)>>)

LogicalVectors == {LogicalVector(v) : v \in SeqsUpTo(BOOLEAN, MaxLen)}

\* The rank-2 constants of extents up to MaxExtent and at most 2 * MaxExtent
\* elements.
LogicalMatrices ==
    UNION {{LogicalResult(v, <<sh[1], sh[2]>>) : v \in [1..(sh[1] * sh[2]) -> BOOLEAN]} :
              sh \in {e \in (0..MaxExtent) \X (0..MaxExtent) : e[1] * e[2] <= 2 * MaxExtent}}

IntegerScalars(kind, vs) == {ScalarConstant("Integer", kind, v) : v \in vs}

RealScalars(kind, vs) == {ScalarConstant("Real", kind, v) : v \in vs}

Vector(cat, kind, v) == Constant(cat, kind, v, <<Len(v)>>)

ReductionArrays ==
    LogicalVectors \cup LogicalMatrices
        \cup {ScalarLogical(TRUE), Var("Logical", 4, 1), Var("Logical", 4, 2), Absent}

DimArguments ==
    {Absent, Var("Integer", 4, 0), Vector("Integer", 4, <<1>>)}
        \cup IntegerScalars(4, 0..3)

ReductionCalls ==
    {Call(n, <<>>) : n \in {"all", "any", "parity"}}
        \cup {Call(n, <<a>>) : n \in {"all", "any", "parity"}, a \in ReductionArrays}
        \cup {Call(n, <<a, d>>) :
                 n \in {"all", "any", "parity"}, a \in ReductionArrays, d \in DimArguments}

BitPatterns ==
    IntegerScalars(1, {-1, 1, -128}) \cup IntegerScalars(2, {-1, 256})
        \cup {Vector("Integer", 1, <<-1, 1>>), Vector("Integer", 2, <<1, -1>>)}
        \cup {BOZLiteralConstant(255), BOZLiteralConstant(1)}
        \cup {Var("Integer", 1, 0), Absent}

BitCompareCalls ==
    {Call(n, <<x, y>>) :
        n \in {"bge", "bgt", "ble", "blt"}, x \in BitPatterns, y \in BitPatterns}

BtestCalls ==
    {Call("btest", <<x, pos>>) :
        x \in IntegerScalars(1, {5, -1, 0}) \cup IntegerScalars(2, {5, -32768})
                \cup {Vector("Integer", 1, <<5, -1>>), Var("Integer", 1, 0),
                      BOZLiteralConstant(5), Absent},
        pos \in IntegerScalars(4, {-1, 0, 1, 7, 8, 15, 16})
                \cup {Vector("Integer", 4, <<0, 8>>), Vector("Integer", 4, <<-1, 9>>),
                      Var("Integer", 4, 0)}}

RealArguments ==
    RealScalars(4, {Finite(3), Finite(-3), NaN, Inf(1), Inf(-1)})
        \cup RealScalars(8, {Huge(1), Huge(-1)})
        \cup {Vector("Real", 4, <<NaN, Finite(2)>>),
              Vector("Real", 8, <<Huge(-1), NaN>>),
              Var("Real", 4, 0), Absent}

IsNanCalls ==
    {Call(n, <<x>>) : n \in {"isnan", "__builtin_ieee_is_nan"}, x \in RealArguments}

IeeeClassCalls ==
    {Call(n, <<x>>) :
        n \in {"__builtin_ieee_is_negative", "__builtin_ieee_is_normal"},
        x \in RealArguments}

IsIostatCalls ==
    {Call(n, <<x>>) :
        n \in {"is_iostat_end", "is_iostat_eor"},
        x \in IntegerScalars(8, {-2, -1, 0}) \cup
                {Vector("Integer", 8, <<-1, -2>>), Var("Integer", 8, 0), Absent}}

AssociatedCalls ==
    {Call("associated", <<p, t>>) :
        p \in {NullPointer, Designator("yes"), AssumedType("unknown"), Absent},
        t \in {NullPointer, Designator("yes"), AssumedType("unknown"), Absent}}

TypedArguments ==
    {Object(t) : t \in {"base", "child", "other", "unlimited"}}
        \cup {AssumedType("unknown"), Absent}

TypeTestCalls ==
    {Call(n, <<a, b>>) :
        n \in {"extends_type_of", "same_type_as"},
        a \in TypedArguments, b \in TypedArguments}

IsContiguousCalls ==
    {Call("is_contiguous", <<a>>) :
        a \in {Designator(c) : c \in {"yes", "no", "unknown"}}
                \cup {AssumedType(c) : c \in {"yes", "no", "unknown"}} \cup {Absent}}

CharacterScalar(codes) == ScalarConstant("Character", 1, codes)

CharacterArguments ==
    {CharacterScalar(<<97, 98, 99>>), CharacterScalar(<<97, 98, 100>>),
     CharacterScalar(<<97, 98>>), CharacterScalar(<<97, 98, 32>>),
     Var("Character", 1, 0), ScalarConstant("Integer", 4, 97), Absent}

CharCompareCalls ==
    {Call(n, <<x, y>>) :
        n \in {"lge", "lgt", "lle", "llt"},
        x \in CharacterArguments, y \in CharacterArguments}

LogicalKindCalls ==
    {Call("logical", <<x>>) :
        x \in {ScalarConstant("Logical", k, b) : k \in {1, 4}, b \in BOOLEAN}
                \cup {Vector("Logical", 1, <<TRUE, FALSE>>), Var("Logical", 1, 0),
                      Var("Logical", 4, 0), ScalarConstant("Integer", 4, 1), Absent}}

DotVectors ==
    {LogicalVector(v) : v \in SeqsUpTo(BOOLEAN, MaxVec)} \cup {Var("Logical", 4, 1)}

DotProductCalls == {Call("dot_product", <<a, b>>) : a \in DotVectors, b \in DotVectors}

IeeeSupportCalls ==
    {Call(n, a) : n \in IeeeSupportNames, a \in {<<>>, <<Var("Real", 4, 0)>>}}

\* LOGICAL-valued intrinsic functions the dispatcher has no rule for.
OtherNames == {"matmul", "present", "allocated", "__builtin_ieee_is_finite"}

OtherCalls ==
    {Call(n, a) :
        n \in OtherNames,
        a \in {<<ScalarLogical(TRUE)>>, <<Var("Logical", 4, 1)>>,
               <<LogicalVector(<<TRUE, FALSE>>), LogicalVector(<<TRUE, TRUE>>)>>,
               <<Absent>>}}

OutOfRangeSources ==
    IntegerScalars(1, {127}) \cup IntegerScalars(2, {300, 128, -129, -128})
        \cup IntegerScalars(4, {65519, 65520, 70000, -70000})
        \cup {Vector("Integer", 2, <<127, 128>>), Vector("Integer", 4, <<300, 70000>>),
              Vector("Integer", 4, <<>>)}
        \cup RealScalars(4, {Finite(254), Finite(255), Finite(256), Finite(-257),
                             Finite(-258), Finite(131038), Finite(131040),
                             NaN, Inf(1), Inf(-1)})
        \cup RealScalars(8, {Huge(1)})
        \cup {Vector("Real", 4, <<Finite(255), NaN>>),
              Vector("Real", 4, <<Inf(1), Finite(2)>>)}
        \cup {Constant("Integer", 2, <<127, 128, 300, -129>>, <<2, 2>>),
              Constant("Real", 4, <<Finite(254), Finite(256), NaN>>, <<1, 3>>),
              Constant("Real", 4, <<>>, <<2, 0>>)}
        \cup {Var("Integer", 4, 0), Var("Real", 4, 1), ScalarLogical(TRUE), Absent}

Molds ==
    {Var("Integer", 1, 0), Var("Integer", 2, 0), Var("Real", 2, 0), Var("Real", 4, 0),
     ScalarConstant("Integer", 1, 0), Var("Logical", 4, 0), Absent}

RoundArguments ==
    {ScalarLogical(TRUE), ScalarLogical(FALSE), ScalarConstant("Logical", 1, TRUE),
     Var("Logical", 4, 0), LogicalVector(<<TRUE>>), LogicalVector(<<FALSE, TRUE>>),
     Absent}

OutOfRangeLeafCalls ==
    {Call("out_of_range", <<x, mold>>) : x \in OutOfRangeSources, mold \in Molds}
        \cup {Call("out_of_range", <<x, mold, round>>) :
                 x \in OutOfRangeSources, mold \in Molds, round \in RoundArguments}

\* The logical calls that occur as the mask of a MERGE source, to a depth
\* of nested out_of_range calls.
MergeOperands ==
    {<<ScalarConstant("Integer", 2, 300), ScalarConstant("Integer", 2, 1)>>,
     <<ScalarConstant("Real", 4, NaN), ScalarConstant("Real", 4, Finite(2))>>}

LeafMasks ==
    {Call("btest", <<ScalarConstant("Integer", 1, 5), ScalarConstant("Integer", 4, 8)>>),
     Call("btest", <<ScalarConstant("Integer", 1, 5), ScalarConstant("Integer", 4, 0)>>),
     Call("isnan", <<ScalarConstant("Real", 8, Huge(1))>>),
     Call("isnan", <<Var("Real", 4, 0)>>),
     Call("__builtin_ieee_is_negative", <<ScalarConstant("Real", 8, Huge(-1))>>),
     Call("out_of_range", <<ScalarConstant("Integer", 2, 300), Var("Integer", 1, 0)>>)}

RECURSIVE Masks(_)
Masks(depth) ==
    IF depth = 0 THEN LeafMasks
    ELSE LeafMasks \cup
         {Call("out_of_range", <<Merge(tf[1], tf[2], m), Var("Integer", 1, 0)>>) :
             tf \in MergeOperands, m \in Masks(depth - 1)}

\* The out_of_range calls whose source is a MERGE, nested to a depth.
OutOfRangeMergeCalls(depth) ==
    IF depth = 0 THEN {}
    ELSE {Call("out_of_range", <<Merge(tf[1], tf[2], m), mold>>) :
             tf \in MergeOperands, m \in Masks(depth - 1),
             mold \in {Var("Integer", 1, 0), Var("Real", 4, 0)}}

\* Every call with a LOGICAL result that reaches FoldIntrinsicFunction.
IntrinsicCalls ==
    ReductionCalls \cup AssociatedCalls \cup BitCompareCalls \cup BtestCalls
        \cup DotProductCalls \cup TypeTestCalls \cup IsNanCalls \cup IeeeClassCalls
        \cup IsContiguousCalls \cup IsIostatCalls \cup CharCompareCalls
        \cup LogicalKindCalls \cup OutOfRangeLeafCalls
        \cup OutOfRangeMergeCalls(MaxDepth) \cup IeeeSupportCalls \cup OtherCalls

RelationalOperators == {"EQ", "NE", "LT", "LE", "GT", "GE"}

IntegerOperands ==
    IntegerScalars(4, {-1, 0, 1})
        \cup {Var("Integer", 4, 0), Vector("Integer", 4, <<1, -1>>),
              ArrayConstructor("Integer", 4,
                  <<Var("Integer", 4, 0), ScalarConstant("Integer", 4, 1)>>)}

RealOperands ==
    RealScalars(4, {NaN, Finite(-2), Finite(2), Finite(3), Inf(1), Inf(-1)})
        \cup {Var("Real", 4, 0), Vector("Real", 4, <<NaN, Finite(2)>>),
              ArrayConstructor("Real", 4,
                  <<Var("Real", 4, 0), ScalarConstant("Real", 4, NaN)>>)}

ComplexOperands ==
    {ScalarConstant("Complex", 4, z) :
        z \in {<<Finite(2), Finite(0)>>, <<Finite(2), Finite(4)>>, <<NaN, Finite(0)>>}}
        \cup {Var("Complex", 4, 0)}

CharacterOperands ==
    {CharacterScalar(<<97, 98, 99>>), CharacterScalar(<<97, 98, 100>>),
     CharacterScalar(<<97, 98>>), Var("Character", 1, 0)}

Relations ==
    {Relational("Integer", opr, x, y) :
        opr \in RelationalOperators, x \in IntegerOperands, y \in IntegerOperands}
    \cup {Relational("Real", opr, x, y) :
        opr \in RelationalOperators, x \in RealOperands, y \in RealOperands}
    \cup {Relational("Complex", opr, x, y) :
        opr \in {"EQ", "NE"}, x \in ComplexOperands, y \in ComplexOperands}
    \cup {Relational("Character", opr, x, y) :
        opr \in RelationalOperators, x \in CharacterOperands, y \in CharacterOperands}

LogicalOperands(kind) ==
    {ScalarConstant("Logical", kind, b) : b \in BOOLEAN}
        \cup {Var("Logical", kind, 0), Vector("Logical", kind, <<TRUE, FALSE>>),
              ArrayConstructor("Logical", kind,
                  <<Var("Logical", kind, 0), ScalarConstant("Logical", kind, TRUE)>>)}

Nots == {Not(x) : x \in LogicalOperands(1) \cup LogicalOperands(4)}

\* The grammar builds LogicalOperation with the binary operators only.
LogicalOperators == {"And", "Or", "Eqv", "Neqv"}

LogicalOperations ==
    UNION {{LogicalOperation(opr, x, y) :
               opr \in LogicalOperators, x \in LogicalOperands(k), y \in LogicalOperands(k)} :
              k \in {1, 4}}

(***************************************************************************)
(* The state machine.                                                      *)
(***************************************************************************)
Init ==
    /\ pc = "ready"
    /\ node = NoNode
    /\ result = NoNode
    /\ messages = <<>>
    /\ sink = "buffer"
    /\ stack = <<>>

Current == Context(sink, messages)

Top == stack[Len(stack)]

\* The mask the source fold of the innermost suspended call has still to
\* fold, if any.
Pending ==
    IF stack # <<>> /\ Top.mask = NoNode THEN Top.call.args[1].mask ELSE NoNode

\* The calls that may be handed over and that FoldIntrinsicFunction takes
\* to a rule: at the top level any call, within a source fold the mask of
\* the source.
Offered(rule) ==
    IF stack = <<>> THEN {n \in IntrinsicCalls : RuleOf(n.name) = rule}
    ELSE IF Pending.tag = "Call" /\ RuleOf(Pending.name) = rule THEN {Pending}
    ELSE {}

\* A fold of n returns r.
Returns(n, r) ==
    /\ Len(r.ctx.messages) <= MaxMessages
    /\ node' = n
    /\ result' = r.expr
    /\ pc' = IF r.expr.tag = "Abort" THEN "aborted" ELSE "done"
    /\ messages' = r.ctx.messages
    /\ sink' = r.ctx.sink
    /\ UNCHANGED stack

Reduction ==
    /\ pc = "ready"
    /\ \E n \in Offered("reduction") :
           Returns(n, FoldReduction(Current, n))

Associated ==
    /\ pc = "ready"
    /\ \E n \in Offered("associated") :
           \E e \in FoldAssociated(n) : Returns(n, Folded(Current, e))

BitCompareRule ==
    /\ pc = "ready"
    /\ \E n \in Offered("bitcompare") :
           Returns(n, FoldBitCompare(Current, n))

Btest ==
    /\ pc = "ready"
    /\ \E n \in Offered("btest") :
           Returns(n, FoldBtest(Current, n))

DotProduct ==
    /\ pc = "ready"
    /\ \E n \in Offered("dot_product") :
           Returns(n, FoldDotProduct(Current, n))

TypeTest ==
    /\ pc = "ready"
    /\ \E n \in Offered("typetest") :
           Returns(n, FoldTypeTest(Current, n))

IsNan ==
    /\ pc = "ready"
    /\ \E n \in Offered("isnan") :
           Returns(n, FoldIsNan(Current, n))

IeeeClass ==
    /\ pc = "ready"
    /\ \E n \in Offered("ieeeclass") :
           Returns(n, FoldIeeeClass(Current, n))

IsContiguousRule ==
    /\ pc = "ready"
    /\ \E n \in Offered("is_contiguous") :
           Returns(n, FoldIsContiguous(Current, n))

IsIostat ==
    /\ pc = "ready"
    /\ \E n \in Offered("is_iostat") :
           Returns(n, FoldIsIostat(Current, n))

CharCompare ==
    /\ pc = "ready"
    /\ \E n \in Offered("charcompare") :
           Returns(n, FoldCharCompare(Current, n))

LogicalKind ==
    /\ pc = "ready"
    /\ \E n \in Offered("logical") :
           Returns(n, FoldLogicalKind(Current, n))

\* out_of_range whose source is absent or folds at once.
OutOfRangeLeaf ==
    /\ pc = "ready"
    /\ \E n \in Offered("out_of_range") :
           /\ HasSource(n) => IsLeaf(n.args[1])
           /\ Returns(n, FoldOutOfRangeLeaf(Current, n))

\* out_of_range whose source is a MERGE: the restorer is set up and Fold()
\* of the source is entered; the call is suspended while the mask folds.
OutOfRangeBegin ==
    /\ pc = "ready"
    /\ Len(stack) < MaxDepth
    /\ \E n \in Offered("out_of_range") :
           /\ n.args[1].tag = "Merge"
           /\ stack' = Append(stack, [call |-> n, restorer |-> sink, mask |-> NoNode])
           /\ sink' = DiscardMessages(Current).sink
    /\ UNCHANGED <<pc, node, result, messages>>

\* Fold() of the source returns: the rule goes on with the folded source,
\* and the restorer goes out of scope.
OutOfRangeEnd ==
    /\ pc = "ready"
    /\ stack # <<>>
    /\ Top.mask # NoNode
    /\ LET folded == FoldMerge(Top.call.args[1], Top.mask)
           r == Folded(Restore(Current, Top.restorer),
                       OutOfRangeFolded(Top.call, folded))
       IN  /\ node' = Top.call
           /\ result' = r.expr
           /\ pc' = IF r.expr.tag = "Abort" THEN "aborted" ELSE "done"
           /\ sink' = r.ctx.sink
           /\ messages' = r.ctx.messages
    /\ stack' = SubSeq(stack, 1, Len(stack) - 1)

IeeeSupport ==
    /\ pc = "ready"
    /\ \E n \in Offered("ieee_support") :
           Returns(n, FoldIeeeSupport(Current, n))

Other ==
    /\ pc = "ready"
    /\ \E n \in Offered("none") :
           Returns(n, FoldNothing(Current, n))

RelationalRule ==
    /\ pc = "ready"
    /\ stack = <<>>
    /\ \E n \in Relations : Returns(n, FoldRelational(Current, n))

NotRule ==
    /\ pc = "ready"
    /\ stack = <<>>
    /\ \E n \in Nots : Returns(n, FoldNot(Current, n))

LogicalOperationRule ==
    /\ pc = "ready"
    /\ stack = <<>>
    /\ \E n \in LogicalOperations : Returns(n, FoldLogicalOperation(Current, n))

\* The driver takes the result; within a source fold it is the folded mask.
Return ==
    /\ pc = "done"
    /\ pc' = "ready"
    /\ node' = NoNode
    /\ result' = NoNode
    /\ stack' = IF stack = <<>> THEN stack
                ELSE [stack EXCEPT ![Len(stack)].mask = result]
    /\ UNCHANGED <<messages, sink>>

Next ==
    \/ Reduction
    \/ Associated
    \/ BitCompareRule
    \/ Btest
    \/ DotProduct
    \/ TypeTest
    \/ IsNan
    \/ IeeeClass
    \/ IsContiguousRule
    \/ IsIostat
    \/ CharCompare
    \/ LogicalKind
    \/ OutOfRangeLeaf
    \/ OutOfRangeBegin
    \/ OutOfRangeEnd
    \/ IeeeSupport
    \/ Other
    \/ RelationalRule
    \/ NotRule
    \/ LogicalOperationRule
    \/ Return

Spec == Init /\ [][Next]_vars

(***************************************************************************)
(* Properties.                                                             *)
(***************************************************************************)
Returned == pc = "done" /\ node.tag = "Call"

\* C1: folding never aborts: whatever node is handed over, with absent,
\* non-constant, scalar constant or array constant arguments, the fold
\* returns a node and the process does not die in it.
C1_FoldNeverAborts == pc # "aborted"

SuppressingRules == {"isnan", "ieeeclass", "out_of_range"}

\* A fold of a call whose rule discards messages returns in this step.
SuppressedReturn ==
    /\ pc = "ready"
    /\ pc' = "done"
    /\ node'.tag = "Call"
    /\ RuleOf(node'.name) \in SuppressingRules

\* The sink that was active when the returning fold was entered: the
\* current one for a fold done in one step, the one the restorer of the
\* suspended call holds for one that resumes.
SinkOnEntry == IF stack' = stack THEN sink ELSE Top.restorer

\* C2: diagnostic suppression is stack disciplined: when a rule that
\* discards messages returns, the sink is the one that was active on
\* entry and the buffer holds what it held on entry; nothing is appended
\* while a scope is open; and the sink is null exactly within the source
\* folds of suspended calls.
C2_SuppressionStackDisciplined ==
    [][/\ SuppressedReturn => (sink' = SinkOnEntry /\ messages' = messages)
       /\ sink = "null" => messages' = messages
       /\ sink' = (IF stack' = <<>> THEN "buffer" ELSE "null")]_vars

\* An out_of_range call has returned at the top level whose source fold
\* folded a nested out_of_range call with a source fold of its own.
C2_Witness ==
    /\ Returned
    /\ stack = <<>>
    /\ node.name = "out_of_range"
    /\ node.args[1].tag = "Merge"
    /\ node.args[1].mask.name = "out_of_range"
    /\ node.args[1].mask.args[1].tag = "Merge"
    /\ node.args[1].mask.args[1].mask.name = "btest"
    /\ result.tag = "Constant"
    /\ sink = "buffer"
    /\ messages = <<>>

ReductionNames == {"all", "any", "parity"}

ExpectedReduction(name, vals) ==
    IF name = "all" THEN \A i \in 1..Len(vals) : vals[i]
    ELSE IF name = "any" THEN \E i \in 1..Len(vals) : vals[i]
    ELSE Cardinality({i \in 1..Len(vals) : vals[i]}) % 2 = 1

HasConstantFirst(args) == Len(args) >= 1 /\ args[1].tag = "Constant"

HasAxis(args) == Len(args) >= 2 /\ args[2] # Absent

ValidAxis(args) ==
    /\ HasAxis(args)
    /\ args[2].tag = "Constant"
    /\ args[2].shape = <<>>
    /\ args[2].values[1] \in 1..Len(args[1].shape)

\* C3: ALL, ANY and PARITY of a constant array, with no axis or with a
\* valid axis on a rank-1 array, fold to the scalar that combines all the
\* elements with the identity (so an empty array gives ALL true, ANY
\* false, PARITY false); with an array that is not constant or an axis
\* that is not a valid constant the call comes back.
C3_ReductionFolds ==
    (Returned /\ node.name \in ReductionNames) =>
        /\ (/\ HasConstantFirst(node.args)
            /\ Len(node.args[1].shape) >= 1
            /\ \/ ~HasAxis(node.args)
               \/ Len(node.args[1].shape) = 1 /\ ValidAxis(node.args))
           => result = ScalarLogical(ExpectedReduction(node.name, node.args[1].values))
        /\ (\/ ~HasConstantFirst(node.args)
            \/ HasAxis(node.args) /\ ~ValidAxis(node.args))
           => result = node

\* ALL of the empty array has folded to true.
C3_Witness ==
    /\ Returned
    /\ node = Call("all", <<LogicalVector(<<>>)>>)
    /\ result = ScalarLogical(TRUE)

BitCompareNames == {"bge", "bgt", "ble", "blt"}

IsBitConstant(arg) ==
    arg.tag = "BOZ" \/ (arg.tag = "Constant" /\ arg.cat = "Integer")

\* The bit pattern of element i of an operand, read as a natural number.
Pattern(arg, i) ==
    IF arg.tag = "BOZ" THEN arg.value
    ELSE IF ElementAt(arg, i) >= 0 THEN ElementAt(arg, i)
    ELSE ElementAt(arg, i) + Pow2(Bits(arg.kind))

PatternShape(a, b) ==
    IF a.tag = "Constant" /\ a.shape # <<>> THEN a.shape
    ELSE IF b.tag = "Constant" THEN b.shape
    ELSE <<>>

UnsignedHolds(name, x, y) ==
    IF name = "bge" THEN x >= y
    ELSE IF name = "bgt" THEN x > y
    ELSE IF name = "ble" THEN x <= y
    ELSE x < y

\* C4: BGE, BGT, BLE and BLT of two constants (integers of any kinds, or
\* BOZ literals) fold to the comparison of the two bit patterns read as
\* unsigned numbers, each zero extended; when an operand is not a constant
\* the call comes back with its arguments as they were.
C4_UnsignedCompare ==
    (Returned /\ node.name \in BitCompareNames) =>
        LET a == node.args[1]
            b == node.args[2]
        IN  IF IsBitConstant(a) /\ IsBitConstant(b)
            THEN result = LogicalResult(
                     [i \in 1..Product(PatternShape(a, b)) |->
                         UnsignedHolds(node.name, Pattern(a, i), Pattern(b, i))],
                     PatternShape(a, b))
            ELSE result = node

\* BGT of the 8-bit pattern 0xFF and 0x01 has folded to true.
C4_Witness ==
    /\ Returned
    /\ node = Call("bgt", <<ScalarConstant("Integer", 1, -1),
                            ScalarConstant("Integer", 1, 1)>>)
    /\ result = ScalarLogical(TRUE)

\* A fold of BTEST with a constant operand and a constant position returns
\* in this step.
BtestFolds ==
    /\ pc = "ready"
    /\ pc' = "done"
    /\ node'.tag = "Call"
    /\ node'.name = "btest"
    /\ node'.args[1].tag = "Constant"
    /\ node'.args[1].cat = "Integer"
    /\ node'.args[2].tag = "Constant"

BtestShape(x, pos) == IF x.shape # <<>> THEN x.shape ELSE pos.shape

\* The positions of the elemental result whose POS is outside the operand.
BadPositions(x, pos) ==
    {i \in 1..Product(BtestShape(x, pos)) :
        ElementAt(pos, i) < 0 \/ ElementAt(pos, i) >= Bits(x.kind)}

\* The bit of the pattern of v at position p, for p within the operand;
\* what the primitive returns beyond.
ExpectedBit(v, bits, p) ==
    IF p \in 0..(bits - 1)
    THEN ((IF v >= 0 THEN v ELSE v + Pow2(bits)) \div Pow2(p)) % 2 = 1
    ELSE BTEST(v, bits, p)

\* C5: BTEST of constants appends one diagnostic to the active sink for
\* each position that is negative or not less than the operand's width,
\* and none otherwise, and in both cases folds to the constant of what
\* the primitive returns (within the operand, the bit at the position).
C5_BtestDiagnostic ==
    [][BtestFolds =>
          LET x == node'.args[1]
              pos == node'.args[2]
              bad == BadPositions(x, pos)
          IN  /\ result' = LogicalResult(
                     [i \in 1..Product(BtestShape(x, pos)) |->
                         ExpectedBit(ElementAt(x, i), Bits(x.kind), ElementAt(pos, i))],
                     BtestShape(x, pos))
              /\ sink = "buffer" =>
                     messages' = messages \o [k \in 1..Cardinality(bad) |-> BtestMessage]
              /\ (messages' # messages) <=> (sink = "buffer" /\ bad # {})]_vars

\* BTEST(5, 8) on an 8-bit operand has folded, with its diagnostic.
C5_Witness ==
    /\ Returned
    /\ node = Call("btest", <<ScalarConstant("Integer", 1, 5),
                              ScalarConstant("Integer", 4, 8)>>)
    /\ result = ScalarLogical(FALSE)
    /\ messages = <<BtestMessage>>

\* An out_of_range call with a numeric constant source and a numeric mold.
NumericOutOfRange ==
    /\ Returned
    /\ node.name = "out_of_range"
    /\ node.args[1].tag = "Constant"
    /\ node.args[1].cat \in {"Integer", "Real"}
    /\ IsTyped(node.args[2])
    /\ node.args[2].cat \in {"Integer", "Real"}

IsScalarConstant(e) == e.tag = "Constant" /\ e.shape = <<>>

IsTrueConstant(e) == IsScalarConstant(e) /\ e.cat = "Logical" /\ e.values[1]

IsFalseConstant(e) == IsScalarConstant(e) /\ e.cat = "Logical" /\ ~e.values[1]

RoundOf(args) == IF Len(args) >= 3 THEN args[3] ELSE Absent

SelectedMode(args) ==
    IF IsTrueConstant(RoundOf(args)) THEN "TiesAwayFromZero" ELSE "ToZero"

\* Whether the checked conversion of an element to the mold's type
\* overflows.
CheckedOverflow(cat, mold, elt, roundingMode) ==
    IF mold.cat = "Real"
    THEN IF cat = "Integer" THEN FromIntegerOverflow(mold.kind, elt)
         ELSE ConvertRealOverflow(mold.kind, elt)
    ELSE IF cat = "Integer" THEN ConvertSignedOverflow(mold.kind, elt)
         ELSE ToIntegerOverflow(mold.kind, elt, roundingMode)

ExpectedOutOfRange(cat, mold, elt, roundingMode) ==
    IF cat = "Real" /\ elt.cls \in {"inf", "nan"} THEN mold.cat = "Integer"
    ELSE CheckedOverflow(cat, mold, elt, roundingMode)

\* C6: out_of_range of a constant source gives, element by element, false
\* for an Inf or a NaN when the mold is real and true when the mold is an
\* integer, and for a finite or integer element whether the checked
\* conversion to the mold's type overflows; without ROUND= it folds.
C6_OutOfRangeElements ==
    NumericOutOfRange =>
        LET x == node.args[1]
            mold == node.args[2]
        IN  /\ Len(node.args) = 2 => result.tag = "Constant"
            /\ result.tag = "Constant" =>
                  /\ Len(result.values) = Len(x.values)
                  /\ \A i \in 1..Len(x.values) :
                        result.values[i] =
                            ExpectedOutOfRange(x.cat, mold, x.values[i],
                                               SelectedMode(node.args))

\* 300 is out of the range of an 8-bit integer mold.
C6_Witness ==
    /\ Returned
    /\ node = Call("out_of_range", <<ScalarConstant("Integer", 2, 300),
                                     Var("Integer", 1, 0)>>)
    /\ result = ScalarLogical(TRUE)

RoundedOutOfRange(x, mold, roundingMode) ==
    LogicalResult([i \in 1..Len(x.values) |->
                      \/ x.values[i].cls \in {"inf", "nan"}
                      \/ ToIntegerOverflow(mold.kind, x.values[i], roundingMode)],
                  x.shape)

\* C7: with a constant real source and an integer mold, an absent or
\* constant false ROUND= truncates toward zero, a constant true ROUND=
\* rounds ties away from zero, and a ROUND= that is not a constant leaves
\* the call unfolded.
C7_RoundSelectsMode ==
    (NumericOutOfRange /\ node.args[1].cat = "Real" /\ node.args[2].cat = "Integer") =>
        LET x == node.args[1]
            mold == node.args[2]
            round == RoundOf(node.args)
        IN  /\ (round = Absent \/ IsFalseConstant(round))
                   => result = RoundedOutOfRange(x, mold, "ToZero")
            /\ IsTrueConstant(round)
                   => result = RoundedOutOfRange(x, mold, "TiesAwayFromZero")
            /\ (IsLogical(round) /\ round.tag # "Constant") => result = node

\* 127.5 with ROUND=.TRUE. rounds to 128, out of the range of an 8-bit mold.
C7_Witness ==
    /\ Returned
    /\ node = Call("out_of_range", <<ScalarConstant("Real", 4, Finite(255)),
                                     Var("Integer", 1, 0), ScalarLogical(TRUE)>>)
    /\ result = ScalarLogical(TRUE)

Holds(opr, x, y) ==
    IF opr = "EQ" THEN x = y
    ELSE IF opr = "NE" THEN x # y
    ELSE IF opr = "LT" THEN x < y
    ELSE IF opr = "LE" THEN x <= y
    ELSE IF opr = "GT" THEN x > y
    ELSE x >= y

\* C8: a relation of two scalar real constants one of which is a NaN folds
\* to false for EQ, LT, LE, GT and GE and to true for NE; of two reals
\* that are not NaNs, or two integers, to the truth of the ordered (for
\* integers, signed) comparison.
C8_RelationalFolds ==
    (/\ pc = "done"
     /\ node.tag = "Relational"
     /\ node.cat \in {"Real", "Integer"}
     /\ IsScalarConstant(node.left)
     /\ IsScalarConstant(node.right)) =>
        LET x == node.left.values[1]
            y == node.right.values[1]
        IN  IF node.cat = "Integer"
            THEN result = ScalarLogical(Holds(node.opr, x, y))
            ELSE IF x.cls = "nan" \/ y.cls = "nan"
            THEN result = ScalarLogical(node.opr = "NE")
            ELSE result = ScalarLogical(Holds(node.opr, Magnitude(x), Magnitude(y)))

\* NaN /= NaN has folded to true.
C8_Witness ==
    /\ pc = "done"
    /\ node = Relational("Real", "NE", ScalarConstant("Real", 4, NaN),
                         ScalarConstant("Real", 4, NaN))
    /\ result = ScalarLogical(TRUE)

TruthTable(opr, x, y) ==
    IF opr = "And" THEN x /\ y
    ELSE IF opr = "Or" THEN x \/ y
    ELSE IF opr = "Eqv" THEN x = y
    ELSE x # y

\* What C9 says of constant operands, and of Not.
ConstantOperandsFold ==
    /\ (pc = "done" /\ node.tag = "LogicalOperation") =>
           LET x == node.left
               y == node.right
               both == IsScalarConstant(x) /\ IsScalarConstant(y)
           IN  /\ result.tag = "Constant" => both
               /\ both => result = ScalarConstant("Logical", x.kind,
                              TruthTable(node.logicalOperator, x.values[1], y.values[1]))
    /\ (pc = "done" /\ node.tag = "Not" /\ IsScalarConstant(node.left)) =>
           result = ScalarConstant("Logical", node.left.kind, ~node.left.values[1])

NonConstantOperand ==
    /\ pc = "done"
    /\ node.tag = "LogicalOperation"
    /\ (node.left.tag # "Constant" \/ node.right.tag # "Constant")

\* C9 as claimed: a LogicalOperation folds to a constant only when both
\* operands are scalar constants, then to the truth table; Not of a
\* scalar constant folds to its complement; with an operand that is not
\* constant the node comes back with the same operator and operands.
C9_Original ==
    /\ ConstantOperandsFold
    /\ NonConstantOperand => result = node

IsNonConstantArray(e) == e.tag # "Constant" /\ Rank(e) > 0

\* C9 as amended: as claimed, except that with a non-constant operand of
\* rank > 0 what comes back is the array of the per-element operations;
\* with none, the node with the same operator and operands.  Neither is a
\* constant.
C9_LogicalOperationFolds ==
    /\ ConstantOperandsFold
    /\ NonConstantOperand =>
           IF IsNonConstantArray(node.left) \/ IsNonConstantArray(node.right)
           THEN result.tag = "ArrayConstructor"
           ELSE result = node

\* x .AND. .TRUE. with x a scalar variable has come back as it was.
C9_Witness ==
    /\ pc = "done"
    /\ node = LogicalOperation("And", Var("Logical", 4, 0),
                               ScalarConstant("Logical", 4, TRUE))
    /\ result = node

\* The names of the dispatcher's rule table as the claim lists them.
ListedNames ==
    {"all", "any", "parity", "associated", "bge", "bgt", "ble", "blt", "btest",
     "extends_type_of", "isnan", "__builtin_ieee_is_nan",
     "__builtin_ieee_is_negative", "__builtin_ieee_is_normal", "is_contiguous",
     "is_iostat_end", "is_iostat_eor", "lge", "lgt", "lle", "llt", "logical",
     "out_of_range", "same_type_as"} \cup IeeeSupportNames

\* C10 as claimed: a call whose name is not in the rule table comes back
\* as it was.
C10_Original == (Returned /\ node.name \notin ListedNames) => result = node

\* C10 as amended: a call whose name is neither in the rule table nor
\* dot_product comes back as it was.
C10_UnlistedUnevaluated ==
    (Returned /\ node.name \notin (ListedNames \cup {"dot_product"})) => result = node

\* A matmul call has come back as it was.
C10_Witness ==
    /\ Returned
    /\ node.name = "matmul"
    /\ result = node

\* A fold of out_of_range returns in this step.
OutOfRangeReturns ==
    /\ pc = "ready"
    /\ pc' = "done"
    /\ node'.tag = "Call"
    /\ node'.name = "out_of_range"

\* What Fold() made of the source of the call that returns: a constant or
\* a designator itself, a MERGE with its folded mask.
FoldedSource ==
    IF stack' = stack THEN node'.args[1]
    ELSE FoldMerge(Top.call.args[1], Top.mask)

\* The source/mold pairs the rule handles: integer or real, each.
HandledPair(folded, mold) ==
    /\ IsTyped(mold)
    /\ mold.cat \in {"Integer", "Real"}
    /\ folded.cat \in {"Integer", "Real"}

====
